---- MODULE Spec2Model ----
(***************************************************************************)
(* Model of the weather ETL pipeline: WeatherTransformer (etl/transform.py),*)
(* WeatherLoader (etl/load.py), WeatherETLPipeline and the scheduler       *)
(* (etl/main_etl.py), the extractor (etl/extract.py) and the read API     *)
(* (api/main.py).                                                          *)
(*                                                                         *)
(* Conventions.  A Python Optional value is a sequence of length <= 1:     *)
(* None is <<>>, a value v is <<v>>.  Temperatures are integers in         *)
(* hundredths of a degree Celsius, humidity is in percent, the clock is in *)
(* hours.  A psycopg2 connection object is in one of three states:         *)
(*   "open"   usable;                                                      *)
(*   "lost"   the server side is gone but the client has not noticed yet   *)
(*            (cursor() still works, execute() raises OperationalError and *)
(*            marks the connection closed);                                *)
(*   "closed" closed (close() called, or the loss was detected):           *)
(*            cursor() raises InterfaceError.                              *)
(* loader.connection = None is "none".                                     *)
(***************************************************************************)
EXTENDS Integers, Sequences, FiniteSets, TLC

VARIABLES
    cities,      \* WeatherETLPipeline.cities of the current pipeline instance
    db_config,   \* WeatherETLPipeline.db_config: "complete" or "incomplete" (a key missing)
    stats,       \* WeatherETLPipeline.stats
    connection,  \* state of WeatherLoader.connection of the current pipeline
    store,       \* rows of table weather_data, in insertion order
    tableExists, \* the table weather_data exists in the database
    now,         \* wall clock, hours
    pc,          \* position of the caller: "idle", "cities", "returned", "raised"
    caller,      \* who started the run in progress: "direct" or "scheduled"
    idx,         \* number of list entries the for-loop of run_full_etl has consumed
    results,     \* local results of run_full_etl (city -> success flag)
    successful_cities, \* local successful_cities of run_full_etl
    report,      \* Optional report of the run_full_etl that has just returned
    sched,       \* main(): ETL_MODE, position, the job's next_run, invocations so far
    leaked,      \* a finished caller left a connection it opened unclosed
    hist,        \* history of the run in progress or just returned
    call         \* a single call of one function or method: its input and its result

vars == <<cities, db_config, stats, connection, store, tableExists, now, pc, caller,
          idx, results, successful_cities, report, sched, leaked, hist, call>>

----------------------------------------------------------------------------
(* Bounds of the model *)

MaxRuns == 2         \* runs of run_full_etl per pipeline instance / per process
MaxTicks == 2        \* clock advances
MaxCities == 2       \* length of the configured city list
MaxAttempts == 2     \* run_etl_for_city calls per pipeline instance / per process
MaxRepeats == 2      \* calls of one function on the same input
Margin == 1          \* input values lie within Margin of a threshold of the code

(* Program constants *)

MinTemperature == -10000   \* -100 degrees, in hundredths
MaxTemperature == 6000     \* 60 degrees, in hundredths
MaxHumidity == 100
SundayWeekday == 6
ScheduleIntervalHours == 1 \* SCHEDULE_INTERVAL_MINUTES, default 60 minutes

(* Configuration values used by the model *)

CleanupDays == 1           \* CLEANUP_DAYS (days_to_keep), in days
EpochWeekday == 6          \* weekday of hour 0 (a Sunday)

None == <<>>
Some(v) == <<v>>
IsNone(o) == o = <<>>
Val(o) == o[1]

CityNames == {"A", "B"}

\* The configured city lists of the model: for each length up to MaxCities the
\* list that alternates the two names and the list that repeats one name.
CityList(n, repeat) ==
    [i \in 1..n |-> IF repeat \/ i % 2 = 1 THEN "A" ELSE "B"]

CityLists == {CityList(n, repeat) : n \in 0..MaxCities, repeat \in BOOLEAN}

----------------------------------------------------------------------------
(* etl/extract.py *)

\* What the provider does for one request: the kinds of failure that
\* extract_weather_data distinguishes, or a 2xx body.
ResponseKinds == {"request_error", "decode_error", "ok"}

\* The same with the failures only the last handler (except Exception) catches,
\* such as a 2xx body that is valid JSON and no object (TypeError on the
\* assignment of extracted_at).
AllResponseKinds == ResponseKinds \cup {"unexpected_error"}

\* What a caller sees of a call that raised.
Raised == <<"raise", "raise">>

\* A 2xx JSON body, reduced to the fields the pipeline reads.
Body(hasMain, name, country, temp, humidity, pressure, weather_main) ==
    [hasMain |-> hasMain, name |-> name, country |-> country, temp |-> temp,
     humidity |-> humidity, pressure |-> pressure, weather_main |-> weather_main]

\* extract_weather_data without its last handler.
ExtractNoCatchAll(response) ==
    IF response.kind = "ok"
    THEN Some([body |-> response.body, extracted_at |-> "iso"])
    ELSE IF response.kind \in {"request_error", "decode_error"}
    THEN None
    ELSE Raised

\* extract_weather_data: None on any failure, else the body with extracted_at.
ExtractWeatherData(response) ==
    IF response.kind = "ok"
    THEN Some([body |-> response.body, extracted_at |-> "iso"])
    ELSE None

----------------------------------------------------------------------------
(* etl/transform.py *)

\* _validate_transformed_data without the upper temperature bound
ValidateNoUpperBound(data) ==
    /\ ~IsNone(data.city_name)
    /\ ~IsNone(data.country_code)
    /\ ~IsNone(data.temperature)
    /\ ~IsNone(data.humidity)
    /\ ~IsNone(data.pressure)
    /\ ~IsNone(data.weather_main)
    /\ MinTemperature <= Val(data.temperature)
    /\ 0 <= Val(data.humidity)
    /\ Val(data.humidity) <= MaxHumidity

\* _validate_transformed_data testing the required fields by truthiness
\* (if not data.get(field)), which rejects a measured value of 0.
ValidateRejectsZero(data) ==
    /\ ~IsNone(data.city_name)
    /\ ~IsNone(data.country_code)
    /\ ~IsNone(data.temperature) /\ Val(data.temperature) # 0
    /\ ~IsNone(data.humidity) /\ Val(data.humidity) # 0
    /\ ~IsNone(data.pressure)
    /\ ~IsNone(data.weather_main)
    /\ MinTemperature <= Val(data.temperature)
    /\ Val(data.temperature) <= MaxTemperature
    /\ 0 <= Val(data.humidity)
    /\ Val(data.humidity) <= MaxHumidity

\* _validate_transformed_data
ValidateTransformedData(data) ==
    /\ ~IsNone(data.city_name)
    /\ ~IsNone(data.country_code)
    /\ ~IsNone(data.temperature)
    /\ ~IsNone(data.humidity)
    /\ ~IsNone(data.pressure)
    /\ ~IsNone(data.weather_main)
    /\ MinTemperature <= Val(data.temperature)
    /\ Val(data.temperature) <= MaxTemperature
    /\ 0 <= Val(data.humidity)
    /\ Val(data.humidity) <= MaxHumidity

\* The flat record built by transform_weather_data from a raw observation.
Flatten(raw) ==
    [city_name |-> raw.body.name,
     country_code |-> raw.body.country,
     temperature |-> raw.body.temp,
     humidity |-> raw.body.humidity,
     pressure |-> raw.body.pressure,
     weather_main |-> raw.body.weather_main,
     data_timestamp |-> Some("iso"),
     extracted_at |-> Some(raw.extracted_at),
     processed_at |-> Some("iso"),
     has_heat_index |-> FALSE,
     heat_index |-> None,
     temperature_category |-> None,
     humidity_category |-> None]

\* transform_weather_data: Optional record.
TransformWeatherData(raw_data) ==
    IF IsNone(raw_data) \/ ~Val(raw_data).body.hasMain
    THEN None
    ELSE IF ValidateTransformedData(Flatten(Val(raw_data)))
         THEN Some(Flatten(Val(raw_data)))
         ELSE None

\* Python truthiness of an Optional number: None and 0 are falsy.
Truthy(o) == ~IsNone(o) /\ Val(o) # 0

\* The temperature classes with the limit of 25 degrees excluded from "Ameno".
TemperatureCategoryStrict(temp) ==
    IF temp < 1000 THEN "Frio"
    ELSE IF temp < 2500 THEN "Ameno"
    ELSE IF temp <= 3500 THEN "Quente"
    ELSE "Muito Quente"

TemperatureCategory(temp) ==
    IF temp < 1000 THEN "Frio"
    ELSE IF temp <= 2500 THEN "Ameno"
    ELSE IF temp <= 3500 THEN "Quente"
    ELSE "Muito Quente"

\* The humidity classes with the limit of 30 percent excluded from "Baixa".
HumidityCategoryStrict(humidity) ==
    IF humidity < 30 THEN "Baixa"
    ELSE IF humidity < 60 THEN "Moderada"
    ELSE "Alta"

HumidityCategory(humidity) ==
    IF humidity <= 30 THEN "Baixa"
    ELSE IF humidity < 60 THEN "Moderada"
    ELSE "Alta"

\* add_derived_fields testing the two values with `is not None`, so that a
\* value of 0 takes part in the heat index.
AddDerivedFieldsNotNone(data) ==
    [data EXCEPT
        !.has_heat_index = ~IsNone(data.temperature) /\ ~IsNone(data.humidity),
        !.heat_index =
            IF ~IsNone(data.temperature) /\ ~IsNone(data.humidity)
            THEN Some(Val(data.temperature) + 50 * (Val(data.humidity) - 50))
            ELSE None,
        !.temperature_category =
            IF IsNone(data.temperature) THEN None
            ELSE Some(TemperatureCategory(Val(data.temperature))),
        !.humidity_category =
            IF IsNone(data.humidity) THEN None
            ELSE Some(HumidityCategory(Val(data.humidity)))]

\* add_derived_fields: the key heat_index is set only when both values are
\* truthy; in hundredths, temp + 0.5 * (humidity - 50) is temp + 50 * (humidity - 50).
AddDerivedFields(data) ==
    [data EXCEPT
        !.has_heat_index = Truthy(data.temperature) /\ Truthy(data.humidity),
        !.heat_index =
            IF Truthy(data.temperature) /\ Truthy(data.humidity)
            THEN Some(Val(data.temperature) + 50 * (Val(data.humidity) - 50))
            ELSE None,
        !.temperature_category =
            IF IsNone(data.temperature) THEN None
            ELSE Some(TemperatureCategory(Val(data.temperature))),
        !.humidity_category =
            IF IsNone(data.humidity) THEN None
            ELSE Some(HumidityCategory(Val(data.humidity)))]

----------------------------------------------------------------------------
(* etl/load.py *)

\* parse_timestamp inside _prepare_data_for_insert: an ISO string becomes a
\* datetime, anything else (None, an unparseable value) becomes None.
ParseTimestamp(ts) ==
    IF ~IsNone(ts) /\ Val(ts) = "iso" THEN Some("datetime") ELSE None

\* _prepare_data_for_insert
PrepareDataForInsert(data) ==
    [data EXCEPT
        !.data_timestamp = ParseTimestamp(data.data_timestamp),
        !.extracted_at = ParseTimestamp(data.extracted_at),
        !.processed_at = ParseTimestamp(data.processed_at)]

\* connection.cursor(): on None an AttributeError, on a closed connection a
\* psycopg2.InterfaceError, else a cursor.
Cursor(conn) ==
    CASE conn = "none" -> "AttributeError"
      [] conn = "closed" -> "InterfaceError"
      [] OTHER -> "cursor"

\* The row the INSERT of load_weather_data adds; created_at is the store's clock.
Row(prepared, clock) ==
    [city_name |-> prepared.city_name,
     country_code |-> prepared.country_code,
     temperature |-> prepared.temperature,
     humidity |-> prepared.humidity,
     pressure |-> prepared.pressure,
     weather_main |-> prepared.weather_main,
     heat_index |-> prepared.heat_index,
     data_timestamp |-> prepared.data_timestamp,
     extracted_at |-> prepared.extracted_at,
     created_at |-> clock]

\* An INSERT that replaces the city's row when the city already has one.
InsertUpsert(rows, row) ==
    IF \E i \in DOMAIN rows : rows[i].city_name = row.city_name
    THEN [i \in DOMAIN rows |->
            IF rows[i].city_name = row.city_name THEN row ELSE rows[i]]
    ELSE Append(rows, row)

\* The effect of the INSERT statement on the table: one more row at the end.
Insert(rows, row) == Append(rows, row)

\* load_weather_data failing after the statement was executed (an exception
\* between execute and return): the row is in the table, the result is False.
LoadWeatherDataLateFailure(conn, table, accepts, data, clock) ==
    IF Cursor(conn) # "cursor"
    THEN [ret |-> "raise", connection |-> conn, row |-> None]
    ELSE IF ~data.has_heat_index
    THEN [ret |-> "false", connection |-> conn, row |-> None]
    ELSE IF conn = "lost"
    THEN [ret |-> "false", connection |-> "closed", row |-> None]
    ELSE IF ~table \/ ~accepts \/ IsNone(data.city_name)
    THEN [ret |-> "false", connection |-> conn, row |-> None]
    ELSE [ret |-> "false", connection |-> conn,
          row |-> Some(Row(PrepareDataForInsert(data), clock))]

\* load_weather_data on a connection without autocommit: the statement is
\* executed and True returned, and the row is never committed.
LoadWeatherDataNoCommit(conn, table, accepts, data, clock) ==
    IF Cursor(conn) # "cursor"
    THEN [ret |-> "raise", connection |-> conn, row |-> None]
    ELSE IF ~data.has_heat_index
    THEN [ret |-> "false", connection |-> conn, row |-> None]
    ELSE IF conn = "lost"
    THEN [ret |-> "false", connection |-> "closed", row |-> None]
    ELSE IF ~table \/ ~accepts \/ IsNone(data.city_name)
    THEN [ret |-> "false", connection |-> conn, row |-> None]
    ELSE [ret |-> "true", connection |-> conn, row |-> None]

\* load_weather_data on a loader whose connection is in state conn.
\*   ret: "true" / "false" returned, "raise" an exception leaves the method.
\* city_name is the table's NOT NULL column.
\* When no cursor is obtained the except clause runs, and then `if cursor:` in
\* the finally clause reads the unbound local: UnboundLocalError leaves the
\* method.  A missing key of the statement's placeholders (heat_index) is a
\* KeyError raised by execute before anything is sent.  accepts: the server
\* accepts the INSERT (no constraint or type error).
LoadWeatherData(conn, table, accepts, data, clock) ==
    IF Cursor(conn) # "cursor"
    THEN [ret |-> "raise", connection |-> conn, row |-> None]
    ELSE IF ~data.has_heat_index
    THEN [ret |-> "false", connection |-> conn, row |-> None]
    ELSE IF conn = "lost"
    THEN [ret |-> "false", connection |-> "closed", row |-> None]
    ELSE IF ~table \/ ~accepts \/ IsNone(data.city_name)
    THEN [ret |-> "false", connection |-> conn, row |-> None]
    ELSE [ret |-> "true", connection |-> conn,
          row |-> Some(Row(PrepareDataForInsert(data), clock))]

\* WeatherLoader.connect: reading a missing key of db_config is a KeyError,
\* which is no psycopg2.Error and leaves the method; a refused connection is
\* a psycopg2.Error and gives False.  up: the server accepts the connection.
Connect(conn, config, up) ==
    IF config = "incomplete" THEN [ret |-> "raise", connection |-> conn]
    ELSE IF up THEN [ret |-> "true", connection |-> "open"]
    ELSE [ret |-> "false", connection |-> conn]

\* WeatherLoader.disconnect: close() when the attribute is set; the attribute
\* itself is never reset to None.
Disconnect(conn) == IF conn = "none" THEN "none" ELSE "closed"

\* WeatherLoader.create_tables; ddlOk: the server accepts the DDL.
CreateTables(conn, ddlOk, table) ==
    IF Cursor(conn) # "cursor"
    THEN [ret |-> "raise", connection |-> conn, table |-> table]
    ELSE IF conn = "lost"
    THEN [ret |-> "false", connection |-> "closed", table |-> table]
    ELSE IF ~ddlOk
    THEN [ret |-> "false", connection |-> conn, table |-> table]
    ELSE [ret |-> "true", connection |-> conn, table |-> TRUE]

\* The rows DELETE ... WHERE created_at < NOW() - INTERVAL 'days days' keeps.
Kept(rows, days, clock) ==
    SelectSeq(rows, LAMBDA r : ~(r.created_at < clock - 24 * days))

\* WeatherLoader.cleanup_old_data: ret "count" with the number deleted, or
\* "raise" (no cursor: UnboundLocalError from the finally clause).
LoaderCleanupOldData(conn, table, rows, days, clock) ==
    IF Cursor(conn) # "cursor"
    THEN [ret |-> "raise", deleted |-> 0, connection |-> conn, rows |-> rows]
    ELSE IF conn = "lost"
    THEN [ret |-> "count", deleted |-> 0, connection |-> "closed", rows |-> rows]
    ELSE IF ~table
    THEN [ret |-> "count", deleted |-> 0, connection |-> conn, rows |-> rows]
    ELSE [ret |-> "count",
          deleted |-> Len(rows) - Len(Kept(rows, days, clock)),
          connection |-> conn,
          rows |-> Kept(rows, days, clock)]

\* The rows SELECT * FROM weather_data [WHERE city_name = %s] matches; a
\* falsy city_name means no filter.
Matching(rows, city_name) ==
    SelectSeq(rows, LAMBDA r : IsNone(city_name) \/ r.city_name = city_name)

\* WeatherLoader.get_latest_data: "row" with a dict, "none" when the query
\* matched nothing and also when the query failed with a psycopg2.Error
\* (error: which of the two), "raise" when no cursor could be obtained.
GetLatestData(conn, table, rows, city_name) ==
    IF Cursor(conn) # "cursor"
    THEN [ret |-> "raise", error |-> TRUE, connection |-> conn]
    ELSE IF conn = "lost"
    THEN [ret |-> "none", error |-> TRUE, connection |-> "closed"]
    ELSE IF ~table
    THEN [ret |-> "none", error |-> TRUE, connection |-> conn]
    ELSE IF Matching(rows, city_name) = <<>>
    THEN [ret |-> "none", error |-> FALSE, connection |-> conn]
    ELSE [ret |-> "row", error |-> FALSE, connection |-> conn]

----------------------------------------------------------------------------
(* api/main.py *)

\* get_weather_loader: a connected loader, or HTTP 503 when connect() is False
\* or raises.
GetWeatherLoader(config, up) ==
    LET c == Connect("none", config, up)
    IN  IF c.ret = "true"
        THEN [status |-> 200, connection |-> c.connection]
        ELSE [status |-> 503, connection |-> c.connection]

\* GET /weather/latest: the dependency, then the handler; lost: the server
\* side of the new connection goes away before the query.  The handler maps
\* a falsy result to 404, any other exception to 500, and disconnects in its
\* finally clause.
GetLatestWeather(config, up, lost, table, rows, city) ==
    LET l == GetWeatherLoader(config, up)
        d == GetLatestData(IF lost THEN "lost" ELSE l.connection, table, rows, city)
    IN  IF l.status # 200
        THEN [status |-> l.status, queried |-> FALSE, error |-> FALSE,
              connection |-> l.connection]
        ELSE [status |-> CASE d.ret = "row" -> 200
                           [] d.ret = "none" -> 404
                           [] OTHER -> 500,
              queried |-> TRUE, error |-> d.error,
              connection |-> Disconnect(d.connection)]

----------------------------------------------------------------------------
(* etl/main_etl.py: WeatherETLPipeline *)

\* WeatherETLPipeline.__init__: self.stats
InitialStats ==
    [total_runs |-> 0, successful_extractions |-> 0, failed_extractions |-> 0,
     successful_loads |-> 0, failed_loads |-> 0,
     last_run |-> None, last_success |-> None]

\* setup_database without its try/except: an exception of connect or of
\* create_tables leaves the method.
SetupDatabaseNoCatch(conn, config, up, ddlOk, table) ==
    LET c == Connect(conn, config, up)
        t == CreateTables(c.connection, ddlOk, table)
    IN  IF c.ret # "true"
        THEN [ret |-> c.ret, connection |-> c.connection, table |-> table,
              connected |-> FALSE, created |-> FALSE]
        ELSE [ret |-> t.ret, connection |-> t.connection, table |-> t.table,
              connected |-> TRUE, created |-> t.ret = "true"]

\* setup_database: connect, then create_tables; every exception is caught
\* and gives False.
SetupDatabase(conn, config, up, ddlOk, table) ==
    LET c == Connect(conn, config, up)
        t == CreateTables(c.connection, ddlOk, table)
    IN  IF c.ret # "true"
        THEN [ret |-> "false", connection |-> c.connection, table |-> table,
              connected |-> FALSE, created |-> FALSE]
        ELSE [ret |-> IF t.ret = "true" THEN "true" ELSE "false",
              connection |-> t.connection, table |-> t.table,
              connected |-> TRUE, created |-> t.ret = "true"]

\* A load step that counts the load as successful before it looks at the
\* loader's result.
LoadStepCountsFirst(conn, table, accepts, final_data, st, clock) ==
    LET l == LoadWeatherData(conn, table, accepts, final_data, clock)
        st2 == [st EXCEPT !.successful_loads = @ + 1]
    IN  CASE l.ret = "true" ->
               [ret |-> TRUE, connection |-> l.connection, row |-> l.row,
                stats |-> st2,
                transformed |-> "ok", loader |-> "true", data |-> Some(final_data)]
          [] l.ret = "false" ->
               [ret |-> FALSE, connection |-> l.connection, row |-> None,
                stats |-> [st2 EXCEPT !.failed_loads = @ + 1],
                transformed |-> "ok", loader |-> "false", data |-> Some(final_data)]
          [] OTHER ->
               [ret |-> FALSE, connection |-> l.connection, row |-> None,
                stats |-> st,
                transformed |-> "ok", loader |-> "raise", data |-> Some(final_data)]

\* The load step of run_etl_for_city and what follows it.
LoadStep(conn, table, accepts, final_data, st, clock) ==
    LET l == LoadWeatherData(conn, table, accepts, final_data, clock)
    IN  CASE l.ret = "true" ->
               [ret |-> TRUE, connection |-> l.connection, row |-> l.row,
                stats |-> [st EXCEPT !.successful_loads = @ + 1],
                transformed |-> "ok", loader |-> "true", data |-> Some(final_data)]
          [] l.ret = "false" ->
               [ret |-> FALSE, connection |-> l.connection, row |-> l.row,
                stats |-> [st EXCEPT !.failed_loads = @ + 1],
                transformed |-> "ok", loader |-> "false", data |-> Some(final_data)]
          [] OTHER ->  \* except Exception: logged, False, no counter
               [ret |-> FALSE, connection |-> l.connection, row |-> l.row,
                stats |-> st,
                transformed |-> "ok", loader |-> "raise", data |-> Some(final_data)]

\* run_etl_for_city counting a failed transformation as a failed extraction.
RunEtlForCityCountsTransform(response, conn, table, accepts, st, clock) ==
    LET raw_data == ExtractWeatherData(response)
        st1 == [st EXCEPT !.successful_extractions = @ + 1]
        transformed_data == TransformWeatherData(raw_data)
    IN  IF IsNone(raw_data)
        THEN [ret |-> FALSE, connection |-> conn, row |-> None,
              stats |-> [st EXCEPT !.failed_extractions = @ + 1],
              transformed |-> "not_called", loader |-> "not_called", data |-> None]
        ELSE IF IsNone(transformed_data)
        THEN [ret |-> FALSE, connection |-> conn, row |-> None,
              stats |-> [st1 EXCEPT !.failed_extractions = @ + 1],
              transformed |-> "failed", loader |-> "not_called", data |-> None]
        ELSE LoadStep(conn, table, accepts,
                      AddDerivedFields(Val(transformed_data)), st1, clock)

\* run_etl_for_city without the return after a failed extraction: the failure
\* is counted and the method goes on to the transformation.
RunEtlForCityNoReturn(response, conn, table, accepts, st, clock) ==
    LET raw_data == ExtractWeatherData(response)
        st0 == IF IsNone(raw_data) THEN [st EXCEPT !.failed_extractions = @ + 1] ELSE st
        st1 == [st0 EXCEPT !.successful_extractions = @ + 1]
        transformed_data == TransformWeatherData(raw_data)
    IN  IF IsNone(transformed_data)
        THEN [ret |-> FALSE, connection |-> conn, row |-> None, stats |-> st1,
              transformed |-> "failed", loader |-> "not_called", data |-> None]
        ELSE LoadStep(conn, table, accepts,
                      AddDerivedFields(Val(transformed_data)), st1, clock)

\* run_etl_for_city, given the provider's response for the city.
\* run_etl_for_city that does not count a successful extraction.
RunEtlForCityExtractUncounted(response, conn, table, accepts, st, clock) ==
    LET raw_data == ExtractWeatherData(response)
        transformed_data == TransformWeatherData(raw_data)
    IN  IF IsNone(raw_data)
        THEN [ret |-> FALSE, connection |-> conn, row |-> None,
              stats |-> [st EXCEPT !.failed_extractions = @ + 1],
              transformed |-> "not_called", loader |-> "not_called", data |-> None]
        ELSE IF IsNone(transformed_data)
        THEN [ret |-> FALSE, connection |-> conn, row |-> None, stats |-> st,
              transformed |-> "failed", loader |-> "not_called", data |-> None]
        ELSE LoadStep(conn, table, accepts,
                      AddDerivedFields(Val(transformed_data)), st, clock)

RunEtlForCity(response, conn, table, accepts, st, clock) ==
    LET raw_data == ExtractWeatherData(response)
        st1 == [st EXCEPT !.successful_extractions = @ + 1]
        transformed_data == TransformWeatherData(raw_data)
    IN  IF IsNone(raw_data)
        THEN [ret |-> FALSE, connection |-> conn, row |-> None,
              stats |-> [st EXCEPT !.failed_extractions = @ + 1],
              transformed |-> "not_called", loader |-> "not_called", data |-> None]
        ELSE IF IsNone(transformed_data)
        THEN [ret |-> FALSE, connection |-> conn, row |-> None, stats |-> st1,
              transformed |-> "failed", loader |-> "not_called", data |-> None]
        ELSE LoadStep(conn, table, accepts,
                      AddDerivedFields(Val(transformed_data)), st1, clock)

\* WeatherETLPipeline.cleanup_old_data: setup_database when the connection
\* attribute is unset (its result is ignored), then the loader's cleanup; an
\* exception of either is caught and logged.
PipelineCleanup(conn, config, up, ddlOk, table, rows, days, clock) ==
    LET s == IF conn = "none"
             THEN SetupDatabase(conn, config, up, ddlOk, table)
             ELSE [ret |-> "true", connection |-> conn, table |-> table,
                   connected |-> FALSE, created |-> FALSE]
        c == LoaderCleanupOldData(s.connection, s.table, rows, days, clock)
    IN  IF s.ret = "raise"
        THEN [connection |-> s.connection, table |-> s.table, rows |-> rows,
              deleted |-> None]
        ELSE [connection |-> c.connection, table |-> s.table, rows |-> c.rows,
              deleted |-> IF c.ret = "count" THEN Some(c.deleted) ELSE None]

\* A for-loop that ends at the first city that fails.
AdvanceStopOnFailure(i, ret, n) == IF ret THEN i + 1 ELSE n

\* The for-loop of run_full_etl: after the city at position i (counted from 0)
\* of n, whatever run_etl_for_city returned, the next position.
Advance(i, ret, n) == i + 1

\* _generate_report: the fields every report has.
GenerateReport(st, success, start) ==
    [execution_id |-> start, success |-> success, statistics |-> st]

\* A report that counts the entries of city_results as total_cities.
FullReportCountResults(st, start, res, n_ok, n_cities) ==
    [execution_id |-> start, success |-> n_ok > 0, statistics |-> st,
     city_results |-> res, successful_cities |-> n_ok,
     total_cities |-> Cardinality(DOMAIN res)]

\* A report whose success flag says that the city list was not empty.
FullReportSuccessNonEmpty(st, start, res, n_ok, n_cities) ==
    [execution_id |-> start, success |-> n_cities > 0, statistics |-> st,
     city_results |-> res, successful_cities |-> n_ok, total_cities |-> n_cities]

\* The report of a run that went through the city loop.
FullReport(st, start, res, n_ok, n_cities) ==
    [execution_id |-> start, success |-> n_ok > 0, statistics |-> st,
     city_results |-> res, successful_cities |-> n_ok, total_cities |-> n_cities]

----------------------------------------------------------------------------
(* Inputs *)

ValidBody(city) ==
    Body(TRUE, Some(city), Some("BR"), Some(2000), Some(50), Some(1013), Some("Clear"))

\* The 2xx bodies the provider may answer for a city: a valid one, one with a
\* temperature of exactly 0, and invalid ones (no main section, a null
\* required field, values out of range).
Bodies(city) ==
    {ValidBody(city),
     [ValidBody(city) EXCEPT !.temp = Some(0)],
     [ValidBody(city) EXCEPT !.hasMain = FALSE],
     [ValidBody(city) EXCEPT !.country = None],
     [ValidBody(city) EXCEPT !.temp = Some(MaxTemperature + 1)],
     [ValidBody(city) EXCEPT !.humidity = Some(MaxHumidity + 1)]}

Responses(city) ==
    {[kind |-> k, body |-> ValidBody(city)] :
        k \in ResponseKinds \ {"ok"}}
    \cup {[kind |-> "ok", body |-> b] : b \in Bodies(city)}

DbConfigs == {"complete", "incomplete"}

\* datetime.now().weekday() for the model's clock
Weekday(clock) == (EpochWeekday + (clock \div 24)) % 7

\* The calendar week (Monday to Sunday) of the model's clock, counted from
\* the week of hour 0.
Week(clock) == (EpochWeekday + (clock \div 24)) \div 7

\* Clock advances: an hour, or a day.
TickSteps == {1, 24}
\* Clock advances by whole days, for the callers that only run and sweep.
DaySteps == {24}
Ticks(clock) == (clock \div 24) + (clock % 24)

----------------------------------------------------------------------------
(* State machine *)

NoCity ==
    [ret |-> FALSE, transformed |-> "not_called", loader |-> "not_called",
     data |-> None, extracted |-> FALSE]

InitialHist ==
    [processed |-> <<>>,      \* list positions handed to run_etl_for_city, in order
     outcomes |-> <<>>,       \* what run_etl_for_city returned for each of them
     last |-> NoCity,         \* the stages of the last run_etl_for_city
     storeAtStart |-> <<>>,   \* the table when the operation began
     prev |-> "none",         \* the operation that finished just before, at the same clock
     responses |-> <<>>,      \* the provider's responses to the run, in order
     prevResponses |-> <<>>,  \* those of the operation before, when it was a run
     connAtStart |-> "none",  \* loader.connection when the run began
     connects |-> 0,          \* connect() calls made since the run began
     setup |-> "skipped",     \* setup_database in this run: skipped / true / false
     attempts |-> 0,          \* run_etl_for_city calls made on this pipeline instance
     op |-> "none"]           \* the operation that has just finished: run / sweep / sweep_failed

\* The history after a retention sweep with result op on the table rows.
AfterSweep(h, op, rows) ==
    [InitialHist EXCEPT !.op = op, !.prev = h.op, !.storeAtStart = rows,
                        !.attempts = h.attempts]

Init ==
    /\ cities \in CityLists
    /\ db_config \in DbConfigs
    /\ stats = InitialStats
    /\ connection = "none"
    /\ store = <<>>
    /\ tableExists = FALSE
    /\ now = 0
    /\ pc = "idle"
    /\ caller = "direct"
    /\ idx = 0
    /\ results = <<>>
    /\ successful_cities = 0
    /\ report = None
    /\ sched \in {[mode |-> "off", pos |-> "off", next_run |-> 0, jobs |-> 0,
                   sweeps |-> 0, sweep_week |-> 0],
                  [mode |-> "once", pos |-> "first", next_run |-> 0, jobs |-> 0,
                   sweeps |-> 0, sweep_week |-> 0],
                  [mode |-> "schedule", pos |-> "first",
                   next_run |-> ScheduleIntervalHours, jobs |-> 0,
                   sweeps |-> 0, sweep_week |-> 0]}
    /\ (sched.mode # "off" => db_config = "complete")
    /\ leaked = FALSE
    /\ hist = InitialHist

\* run_full_etl up to the city loop, on a pipeline with statistics st and
\* loader connection conn, for caller who.
Begin(st, conn, who) ==
    LET st1 == [st EXCEPT !.total_runs = @ + 1, !.last_run = Some(now)]
    IN  \E up \in BOOLEAN, ddlOk \in BOOLEAN :
        LET s == IF conn = "none"
                 THEN SetupDatabase(conn, db_config, up, ddlOk, tableExists)
                 ELSE [ret |-> "true", connection |-> conn, table |-> tableExists,
                       connected |-> FALSE, created |-> FALSE]
        IN  /\ stats' = st1
            /\ connection' = s.connection
            /\ tableExists' = s.table
            /\ caller' = who
            /\ idx' = 0
            /\ results' = <<>>
            /\ successful_cities' = 0
            /\ hist' = [hist EXCEPT
                            !.processed = <<>>, !.outcomes = <<>>, !.last = NoCity,
                            !.storeAtStart = store,
                            !.prev = hist.op,
                            !.responses = <<>>,
                            !.prevResponses = IF hist.op = "run" THEN hist.responses ELSE <<>>,
                            !.op = IF conn = "none" /\ s.ret = "false" THEN "run" ELSE "none",
                            !.connAtStart = conn,
                            !.connects = IF conn = "none" THEN 1 ELSE 0,
                            !.attempts = IF who = "scheduled" THEN 0 ELSE @,
                            !.setup = IF conn = "none" THEN s.ret ELSE "skipped"]
            /\ CASE s.ret = "true" ->
                     /\ pc' = "cities"
                     /\ report' = None
                 [] s.ret = "false" ->
                     /\ pc' = IF who = "scheduled" THEN "returned" ELSE "idle"
                     /\ report' = Some(GenerateReport(st1, FALSE, now))
                 [] OTHER ->
                     /\ pc' = "raised"
                     /\ report' = None

\* A caller of the class invokes pipeline.run_full_etl().
RunFullEtl ==
    /\ sched.mode = "off"
    /\ pc = "idle"
    /\ stats.total_runs < MaxRuns
    /\ (stats.total_runs + 1) * Len(cities) <= MaxAttempts
    /\ Begin(stats, connection, "direct")
    /\ UNCHANGED <<call, cities, db_config, store, now, sched, leaked>>

\* One iteration of the for-loop of run_full_etl.
RunCity ==
    /\ pc = "cities"
    /\ idx < Len(cities)
    /\ \E response \in Responses(cities[idx + 1]), accepts \in BOOLEAN :
        LET r == RunEtlForCity(response, connection, tableExists, accepts, stats, now)
            city == cities[idx + 1]
        IN  /\ stats' = r.stats
            /\ connection' = r.connection
            /\ store' = IF IsNone(r.row) THEN store ELSE Insert(store, Val(r.row))
            /\ results' = [c \in DOMAIN results \cup {city} |->
                               IF c = city THEN r.ret ELSE results[c]]
            /\ successful_cities' = successful_cities + (IF r.ret THEN 1 ELSE 0)
            /\ idx' = Advance(idx, r.ret, Len(cities))
            /\ hist' = [hist EXCEPT
                            !.processed = Append(@, idx + 1),
                            !.outcomes = Append(@, r.ret),
                            !.responses = Append(@, response),
                            !.attempts = @ + 1,
                            !.last = [ret |-> r.ret, transformed |-> r.transformed,
                                      loader |-> r.loader, data |-> r.data,
                                      extracted |-> response.kind = "ok"]]
    /\ UNCHANGED <<call, cities, db_config, tableExists, now, pc, caller, report,
                   sched, leaked>>

\* run_full_etl after the loop: last_success, the report, return.
RunReturn ==
    /\ pc = "cities"
    /\ idx >= Len(cities)
    /\ LET st1 == IF successful_cities > 0
                  THEN [stats EXCEPT !.last_success = Some(now)]
                  ELSE stats
       IN  /\ stats' = st1
           /\ report' = Some(FullReport(st1, Val(stats.last_run), results,
                                         successful_cities, Len(cities)))
    /\ pc' = IF caller = "scheduled" THEN "returned" ELSE "idle"
    /\ idx' = 0
    /\ results' = <<>>
    /\ successful_cities' = 0
    /\ hist' = [hist EXCEPT !.op = "run"]
    /\ UNCHANGED <<call, cities, db_config, connection, store, tableExists, now,
                   caller, sched, leaked>>

\* A caller of the class invokes pipeline.cleanup_old_data(CleanupDays).
CleanupOldData ==
    /\ sched.mode = "off"
    /\ pc = "idle"
    /\ \E up \in BOOLEAN, ddlOk \in BOOLEAN :
        LET c == PipelineCleanup(connection, db_config, up, ddlOk, tableExists,
                                 store, CleanupDays, now)
        IN  /\ connection' = c.connection
            /\ tableExists' = c.table
            /\ store' = c.rows
            /\ hist' = AfterSweep(hist, IF IsNone(c.deleted) THEN "sweep_failed"
                                         ELSE "sweep", store)
    /\ report' = None
    /\ UNCHANGED <<call, cities, db_config, stats, now, pc, caller, idx, results,
                   successful_cities, sched, leaked>>

\* A main() without the while-loop.
AfterJobExit(mode) == "exited"

\* Where main() goes once run_scheduled_etl has returned: back into the
\* while-loop in schedule mode, to the end of the process otherwise.
AfterJob(mode) == IF mode = "schedule" THEN "loop" ELSE "exited"

\* run_scheduled_etl, from its start to the city loop of run_full_etl: a new
\* pipeline (new statistics, a loader without connection) is built from the
\* configuration and run.  Called once immediately by main(), and by
\* schedule.run_pending() whenever the job is due.
ScheduledStart ==
    /\ sched.mode # "off"
    /\ pc = "idle"
    /\ \/ sched.pos = "first"
       \/ sched.pos = "loop" /\ now >= sched.next_run
    /\ sched.jobs < MaxRuns
    /\ (sched.jobs + 1) * Len(cities) <= MaxAttempts
    /\ Begin(InitialStats, "none", "scheduled")
    /\ sched' = [sched EXCEPT !.pos = IF @ = "first" THEN "first_job" ELSE "loop_job",
                              !.jobs = @ + 1]
    /\ UNCHANGED <<call, cities, db_config, store, now, leaked>>

\* run_scheduled_etl after run_full_etl has returned: the Sunday cleanup, then
\* the return.  The pipeline and its loader are dropped without disconnect():
\* whether the server connection is released at that moment is left to the
\* interpreter's finalisation (finalized), not done by the code.
ScheduledFinish ==
    /\ pc = "returned"
    /\ \E up \in BOOLEAN, ddlOk \in BOOLEAN, finalized \in BOOLEAN :
        LET sunday == Weekday(now) = SundayWeekday
            c == PipelineCleanup(connection, db_config, up, ddlOk, tableExists,
                                 store, CleanupDays, now)
            conn == IF sunday THEN c.connection ELSE connection
        IN  /\ connection' = IF finalized THEN Disconnect(conn) ELSE conn
            /\ tableExists' = IF sunday THEN c.table ELSE tableExists
            /\ store' = IF sunday THEN c.rows ELSE store
            /\ leaked' = (leaked \/ (conn \in {"open", "lost"} /\ ~finalized))
            /\ hist' = IF ~sunday THEN [InitialHist EXCEPT !.op = "run"]
                        ELSE [AfterSweep(hist, IF IsNone(c.deleted) THEN "sweep_failed"
                                               ELSE "sweep", store)
                                EXCEPT !.attempts = 0]
    /\ report' = None
    /\ pc' = "idle"
    /\ sched' = [sched EXCEPT
                    !.pos = AfterJob(sched.mode),
                    !.next_run = IF sched.pos = "loop_job"
                                 THEN now + ScheduleIntervalHours ELSE @,
                    !.sweeps = IF Weekday(now) # SundayWeekday THEN @
                               ELSE IF sched.sweep_week = Week(now) THEN @ + 1
                               ELSE 1,
                    !.sweep_week = IF Weekday(now) = SundayWeekday THEN Week(now) ELSE @]
    /\ UNCHANGED <<call, cities, db_config, stats, now, caller, idx, results,
                   successful_cities>>

(* Environment *)

\* Time passes between operations.
Tick(steps) ==
    /\ pc = "idle"
    /\ \E step \in steps :
        /\ Ticks(now + step) <= MaxTicks
        /\ now' = now + step
    /\ hist' = [InitialHist EXCEPT !.attempts = hist.attempts]
    /\ report' = None
    /\ UNCHANGED <<call, cities, db_config, stats, connection, store, tableExists,
                   pc, caller, idx, results, successful_cities, sched, leaked>>

\* The server side of the open connection goes away; the client object does
\* not know until its next operation fails.
LoseConnection ==
    /\ connection = "open"
    /\ connection' = "lost"
    /\ UNCHANGED <<call, cities, db_config, stats, store, tableExists, now, pc,
                   caller, idx, results, successful_cities, report, sched, leaked,
                   hist>>

(* Single calls *)

\* No call under observation.
NoCall == [fn |-> "none", arg |-> None, n |-> 0, out |-> None, prev |-> None]

\* A call of fn on input arg that has not been made yet.
Call(fn, arg) == [fn |-> fn, arg |-> arg, n |-> 0, out |-> None, prev |-> None]

\* The call has been made n times on the same input: out is the last result,
\* prev the one before.
Applied(c, result) == [c EXCEPT !.n = @ + 1, !.out = Some(result), !.prev = c.out]

\* The responses a single extract_weather_data call may meet.
CallResponses ==
    {[kind |-> k, body |-> ValidBody("A")] : k \in AllResponseKinds \ {"ok"}}
    \cup {[kind |-> "ok", body |-> b] : b \in Bodies("A")}

\* Values within Margin of the thresholds the code compares a temperature
\* with (validation range, zero, category limits), in hundredths of a degree.
TemperatureInputs ==
    {t + d : t \in {MinTemperature, 0, 1000, 2500, 3500, MaxTemperature},
             d \in -Margin..Margin}

\* Values within Margin of the thresholds the code compares a humidity with.
HumidityInputs ==
    {h + d : h \in {0, 30, 50, 60, MaxHumidity}, d \in -Margin..Margin}

OptionalOf(S) == {None} \cup {Some(v) : v \in S}

\* Provider payloads for a single transform call: any temperature and humidity
\* of the input sets or null, with at most one of the other fields null.
CallBodies ==
    LET full(t, h, m) == Body(m, Some("A"), Some("BR"), t, h, Some(1013), Some("Clear"))
    IN  UNION {{full(t, h, m),
                [full(t, h, m) EXCEPT !.name = None],
                [full(t, h, m) EXCEPT !.country = None],
                [full(t, h, m) EXCEPT !.pressure = None],
                [full(t, h, m) EXCEPT !.weather_main = None]} :
               t \in OptionalOf(TemperatureInputs),
               h \in OptionalOf(HumidityInputs),
               m \in BOOLEAN}

\* The raw_data arguments of a single transform call: None, or a payload as
\* extract_weather_data returns it.
CallRawData ==
    {None} \cup {Some([body |-> b, extracted_at |-> "iso"]) : b \in CallBodies}

\* The records of a single add_derived_fields call: flat records with any
\* temperature and humidity of the input sets, or null.
CallRecords ==
    {Flatten([body |-> Body(TRUE, Some("A"), Some("BR"), t, h, Some(1013), Some("Clear")),
              extracted_at |-> "iso"]) :
        t \in OptionalOf(TemperatureInputs), h \in OptionalOf(HumidityInputs)}

\* A row of the table as a successful load of a valid observation leaves it,
\* created at hour created_at.
StoredRow(created_at) ==
    Row(PrepareDataForInsert(AddDerivedFields(
            Flatten([body |-> ValidBody("A"), extracted_at |-> "iso"]))),
        created_at)

\* The hour at which the single cleanup calls are made.
CleanupClock == 24 * CleanupDays + 24

\* Tables of up to MaxCities rows, in insertion order, created within Margin
\* hours of the cleanup threshold.
CallTables ==
    LET ages == {CleanupClock - 24 * CleanupDays + d : d \in -Margin..Margin}
    IN  UNION {{[i \in 1..n |-> StoredRow(f[i])] :
                  f \in {g \in [1..n -> ages] : \A i \in 1..(n - 1) : g[i] <= g[i + 1]}} :
               n \in 0..MaxCities}

\* The situations of a single loader.cleanup_old_data(days) call.
CallCleanups ==
    {[conn |-> c, table |-> t, rows |-> r, days |-> CleanupDays, clock |-> CleanupClock] :
        c \in {"none", "open", "lost", "closed"}, t \in BOOLEAN, r \in CallTables}
    \ {x \in [conn : {"none", "open", "lost", "closed"}, table : {FALSE},
               rows : CallTables, days : {CleanupDays}, clock : {CleanupClock}] :
          x.rows # <<>>}

\* The situations of a single GET /weather/latest request.
CallRequests ==
    {[config |-> "complete", up |-> u, lost |-> l, table |-> t, rows |-> r, city |-> c] :
        u \in BOOLEAN, l \in BOOLEAN, t \in BOOLEAN, r \in CallTables,
        c \in OptionalOf(CityNames)}
    \ {x \in [config : {"complete"}, up : BOOLEAN, lost : BOOLEAN, table : {FALSE},
               rows : CallTables, city : OptionalOf(CityNames)] : x.rows # <<>>}

\* extractor.extract_weather_data(city) is called.
ExtractCall ==
    /\ call.fn = "extract"
    /\ call.n < MaxRepeats
    /\ call' = Applied(call, ExtractWeatherData(call.arg))
    /\ UNCHANGED <<cities, db_config, stats, connection, store, tableExists, now,
                   pc, caller, idx, results, successful_cities, report, sched,
                   leaked, hist>>

\* transformer.transform_weather_data(raw_data) is called.
TransformCall ==
    /\ call.fn = "transform"
    /\ call.n < MaxRepeats
    /\ call' = Applied(call, TransformWeatherData(call.arg))
    /\ UNCHANGED <<cities, db_config, stats, connection, store, tableExists, now,
                   pc, caller, idx, results, successful_cities, report, sched,
                   leaked, hist>>

\* transformer.add_derived_fields(data) is called.
EnrichCall ==
    /\ call.fn = "enrich"
    /\ call.n < MaxRepeats
    /\ call' = Applied(call, AddDerivedFields(call.arg))
    /\ UNCHANGED <<cities, db_config, stats, connection, store, tableExists, now,
                   pc, caller, idx, results, successful_cities, report, sched,
                   leaked, hist>>

\* loader.cleanup_old_data(days) is called.
LoaderCleanupCall ==
    /\ call.fn = "cleanup"
    /\ call.n < MaxRepeats
    /\ call' = Applied(call,
                       LoaderCleanupOldData(
                           IF call.n = 0 THEN call.arg.conn ELSE Val(call.out).connection,
                           call.arg.table,
                           IF call.n = 0 THEN call.arg.rows ELSE Val(call.out).rows,
                           call.arg.days, call.arg.clock))
    /\ UNCHANGED <<cities, db_config, stats, connection, store, tableExists, now,
                   pc, caller, idx, results, successful_cities, report, sched,
                   leaked, hist>>

\* A client requests GET /weather/latest.
LatestWeatherCall ==
    /\ call.fn = "latest"
    /\ call.n < MaxRepeats
    /\ call' = Applied(call,
                       GetLatestWeather(call.arg.config, call.arg.up, call.arg.lost,
                                        call.arg.table, call.arg.rows, call.arg.city))
    /\ UNCHANGED <<cities, db_config, stats, connection, store, tableExists, now,
                   pc, caller, idx, results, successful_cities, report, sched,
                   leaked, hist>>

\* get_health_status: a run counts as recent for less than this many hours.
RecentHours == 2

\* get_health_status: the loader's connection attribute is tested against
\* None only (it stays set after close() and after the server is gone), and
\* the last run is recent when it began less than RecentHours ago.
GetHealthStatus(conn, st, clock) ==
    LET db_healthy == conn # "none"
        last_run_ok == IF IsNone(st.last_run) THEN FALSE
                       ELSE clock - Val(st.last_run) < RecentHours
    IN  [healthy |-> db_healthy /\ last_run_ok,
         database_connected |-> db_healthy,
         last_run_recent |-> last_run_ok,
         statistics |-> st]

\* The pipelines whose health is asked for: the loader's connection in any of
\* its states, no run yet or a last run that began up to RecentHours + Margin
\* hours before the question.
CallHealths ==
    {[conn |-> c, last_run |-> r, clock |-> RecentHours + Margin] :
        c \in {"none", "open", "lost", "closed"},
        r \in OptionalOf(0..(RecentHours + Margin))}

\* A caller asks the pipeline for its health.
HealthCall ==
    /\ call.fn = "health"
    /\ call.n < MaxRepeats
    /\ call' = Applied(call,
                       GetHealthStatus(call.arg.conn,
                                       [InitialStats EXCEPT !.last_run = call.arg.last_run],
                                       call.arg.clock))
    /\ UNCHANGED <<cities, db_config, stats, connection, store, tableExists, now,
                   pc, caller, idx, results, successful_cities, report, sched,
                   leaked, hist>>

\* The single run_etl_for_city calls: a response that carries an observation
\* with any temperature and humidity of the input sets, a loader that is
\* connected or has lost its connection, the table present or not, the
\* server accepting the INSERT or not.
CallRunOnes ==
    {[response |-> [kind |-> "ok",
                    body |-> Body(TRUE, Some("A"), Some("BR"), Some(t), Some(h),
                                  Some(1013), Some("Clear"))],
      conn |-> c, table |-> tb, accepts |-> a] :
        t \in TemperatureInputs, h \in HumidityInputs,
        c \in {"open", "lost"}, tb \in BOOLEAN, a \in BOOLEAN}

\* run_etl_for_city called on its own, again on what the call before left.
RunOneCall ==
    /\ call.fn = "run_one"
    /\ call.n < MaxRepeats
    /\ call' = Applied(call,
                       RunEtlForCity(call.arg.response,
                                     IF call.n = 0 THEN call.arg.conn
                                     ELSE Val(call.out).connection,
                                     call.arg.table, call.arg.accepts,
                                     IF call.n = 0 THEN InitialStats
                                     ELSE Val(call.out).stats,
                                     0))
    /\ UNCHANGED <<cities, db_config, stats, connection, store, tableExists, now,
                   pc, caller, idx, results, successful_cities, report, sched,
                   leaked, hist>>

\* A pipeline instance driven through its methods run_full_etl and
\* cleanup_old_data, with time passing between the calls.
InitPipeline == Init /\ sched.mode = "off" /\ call = NoCall

NextRuns ==
    \/ RunFullEtl
    \/ RunCity
    \/ RunReturn
    \/ LoseConnection

NextRetention ==
    \/ RunFullEtl
    \/ RunCity
    \/ RunReturn
    \/ CleanupOldData
    \/ Tick(DaySteps)
    \/ LoseConnection

\* main(): run_scheduled_etl once, or at once and then whenever it is due.
InitScheduled == Init /\ sched.mode # "off" /\ call = NoCall

NextScheduled ==
    \/ ScheduledStart
    \/ RunCity
    \/ RunReturn
    \/ ScheduledFinish
    \/ Tick(TickSteps)
    \/ LoseConnection

\* The functions and methods of the stages, each called on its own.
CallInputs ==
    {Call("extract", r) : r \in CallResponses}
    \cup {Call("transform", r) : r \in CallRawData}
    \cup {Call("enrich", r) : r \in CallRecords}
    \cup {Call("cleanup", x) : x \in CallCleanups}
    \cup {Call("latest", x) : x \in CallRequests}
    \cup {Call("health", x) : x \in CallHealths}
    \cup {Call("run_one", x) : x \in CallRunOnes}

InitCalls ==
    /\ Init
    /\ sched.mode = "off"
    /\ cities = <<>>
    /\ db_config = "complete"
    /\ call \in CallInputs

NextCalls ==
    \/ ExtractCall
    \/ TransformCall
    \/ EnrichCall
    \/ LoaderCleanupCall
    \/ LatestWeatherCall
    \/ HealthCall
    \/ RunOneCall

Spec == InitPipeline /\ [][NextRuns]_vars

CallSpec == InitCalls /\ [][NextCalls]_vars

RetentionSpec == InitPipeline /\ [][NextRetention]_vars

ScheduledSpec == InitScheduled /\ [][NextScheduled]_vars

\* The while-loop of main() keeps calling run_pending, every call made by the
\* invocation returns, and time passes.
FairScheduledSpec ==
    /\ ScheduledSpec
    /\ WF_vars(ScheduledStart)
    /\ WF_vars(RunCity)
    /\ WF_vars(RunReturn)
    /\ WF_vars(ScheduledFinish)
    /\ WF_vars(Tick(TickSteps))

----------------------------------------------------------------------------
(* Properties *)

IsPrefix(a, b) == Len(a) <= Len(b) /\ SubSeq(b, 1, Len(a)) = a

CountTrue(flags) == Cardinality({i \in DOMAIN flags : flags[i]})

Positions(n) == [i \in 1..n |-> i]

\* run_full_etl has just returned a report to its caller.
RunReturned == pc \in {"idle", "returned"} /\ ~IsNone(report)

\* C1 as stated: within one run_all every entry of the configured city list is
\* processed exactly once, in list order.
C1_EveryEntryOnce ==
    RunReturned => hist.processed = Positions(Len(cities))

\* C1 amended: while a run is in its city loop the entries processed so far are
\* exactly the first idx list positions, each once and in list order, whatever
\* the earlier cities returned; a run whose store setup did not fail returns
\* after all entries, and a run whose store setup failed returns after none.
C1_Sequential ==
    /\ pc = "cities" =>
         /\ idx <= Len(cities)
         /\ hist.processed = Positions(idx)
    /\ RunReturned =>
         hist.processed = IF hist.setup = "false" THEN <<>>
                          ELSE Positions(Len(cities))

\* A run of two cities returned, the first city failed and the second succeeded.
C1_Witness ==
    /\ RunReturned
    /\ hist.processed = <<1, 2>>
    /\ hist.outcomes = <<FALSE, TRUE>>

\* The outcome of the last list entry naming city c.
LastOutcome(c) ==
    hist.outcomes[CHOOSE i \in DOMAIN cities :
                    /\ cities[i] = c
                    /\ \A j \in DOMAIN cities : cities[j] = c => j <= i]

\* C2 as stated: the report has total_cities = length of the list,
\* successful_cities = number of cities for which run_one returned true, and a
\* city_results entry for every list entry with that entry's outcome.
C2_ReportCounts ==
    RunReturned =>
        /\ "total_cities" \in DOMAIN Val(report)
        /\ Val(report).total_cities = Len(cities)
        /\ Val(report).successful_cities = CountTrue(hist.outcomes)
        /\ \A i \in DOMAIN cities :
              /\ cities[i] \in DOMAIN Val(report).city_results
              /\ Val(report).city_results[cities[i]] = hist.outcomes[i]

\* C2 amended: the report of a run whose store setup did not fail has
\* total_cities = length of the list, successful_cities = number of list entries
\* for which run_one returned true, and one city_results entry per distinct
\* city, holding the outcome of the city's last list entry; the report of a run
\* whose store setup failed has success = false and none of the three fields.
C2_Report ==
    RunReturned =>
        IF hist.setup = "false"
        THEN /\ DOMAIN Val(report) = {"execution_id", "success", "statistics"}
             /\ ~Val(report).success
        ELSE /\ Val(report).total_cities = Len(cities)
             /\ Val(report).successful_cities = CountTrue(hist.outcomes)
             /\ DOMAIN Val(report).city_results = {cities[i] : i \in DOMAIN cities}
             /\ \A c \in DOMAIN Val(report).city_results :
                   Val(report).city_results[c] = LastOutcome(c)

\* The report of a run over two different cities, one succeeding, one failing.
C2_Witness ==
    /\ RunReturned
    /\ hist.setup # "false"
    /\ Len(cities) = 2
    /\ cities[1] # cities[2]
    /\ Val(report).successful_cities = 1
    /\ Val(report).total_cities = 2
    /\ Val(report).city_results[cities[1]]
    /\ ~Val(report).city_results[cities[2]]

\* C3: no exception leaves run_full_etl, and a run that has ended has
\* returned a report.
C3_NothingEscapes ==
    /\ pc # "raised"
    /\ hist.op = "run" /\ pc \in {"idle", "returned"} => ~IsNone(report)

\* A run returned its report although load_weather_data raised for its last city.
C3_Witness ==
    /\ RunReturned
    /\ hist.last.loader = "raise"

\* The validity the claim C4 states, on the fields of a row or record.
C4_Valid(r) ==
    /\ ~IsNone(r.city_name)
    /\ ~IsNone(r.country_code)
    /\ ~IsNone(r.temperature)
    /\ ~IsNone(r.humidity)
    /\ ~IsNone(r.pressure)
    /\ ~IsNone(r.weather_main)
    /\ -100 * 100 <= Val(r.temperature)
    /\ Val(r.temperature) <= 60 * 100
    /\ 0 <= Val(r.humidity)
    /\ Val(r.humidity) <= 100

\* C4: every row of the table comes from a record that passed validation, and
\* the loader is invoked only after a successful transformation, with a valid
\* record.
C4_InvalidNeverPersisted ==
    /\ \A i \in DOMAIN store : C4_Valid(store[i])
    /\ hist.last.loader # "not_called" =>
         /\ hist.last.transformed = "ok"
         /\ C4_Valid(Val(hist.last.data))

\* The table holds a row and the city just processed was rejected by the
\* validation, the loader not being called for it.
C4_Witness ==
    /\ Len(store) >= 1
    /\ hist.last.extracted
    /\ hist.last.transformed = "failed"
    /\ hist.last.loader = "not_called"

\* The scheduler can run the job once more within the bounds of the model.
RoomForJob ==
    /\ sched.jobs < MaxRuns
    /\ (sched.jobs + 1) * Len(cities) <= MaxAttempts
    /\ (now >= sched.next_run \/ Ticks(now) < MaxTicks)

\* C5: in schedule mode the loop of main() is never left, and after every
\* invocation of run_scheduled_etl, whatever happened in it, a later
\* invocation starts.
C5_SchedulerKeepsRunning ==
    /\ [](sched.mode = "schedule" => sched.pos # "exited")
    /\ []((sched.pos = "loop" /\ RoomForJob) => <>(sched.pos = "loop_job"))

\* A second invocation is in its city loop after a first one that stored nothing.
C5_Witness ==
    /\ sched.pos = "loop_job"
    /\ sched.jobs = 2
    /\ pc = "cities"
    /\ Len(cities) >= 1
    /\ store = <<>>

\* C6: every step that is not a retention sweep keeps all rows of the table, in
\* place and unchanged (it appends, or leaves the table alone).
C6_AppendOnly ==
    [][(~CleanupOldData) => IsPrefix(store, store')]_vars

\* A run has appended a row to a table that already held rows when it began.
C6_Witness ==
    /\ pc = "cities"
    /\ Len(hist.storeAtStart) >= 1
    /\ Len(store) > Len(hist.storeAtStart)
    /\ IsPrefix(hist.storeAtStart, store)

\* An operation has just finished that repeats the one finished just before it,
\* at the same clock and, for a run, with the same provider responses.
Repeated ==
    /\ pc = "idle"
    /\ hist.op \in {"run", "sweep"}
    /\ hist.prev = hist.op
    /\ hist.op = "run" => hist.responses = hist.prevResponses

C8_NoConnectionLeaked == ~leaked

\* C9: a run that starts on a connection whose loss has been detected makes a
\* connect attempt before it processes a city.
C9_ReconnectBeforeNextRun ==
    (pc = "cities" /\ hist.connAtStart = "closed") => hist.connects > 0

\* C10: load_weather_data returns true or false and never raises.
C10_LoadNeverRaises == hist.last.loader # "raise"

\* C11: extract_weather_data returns None for a request error, an undecodable
\* body or any other exception, returns the payload with extracted_at added for
\* a 2xx response with a JSON object, and never raises.
C11_ExtractNeverRaises ==
    (call.fn = "extract" /\ call.n >= 1) =>
        /\ Val(call.out) # Raised
        /\ call.arg.kind # "ok" => Val(call.out) = None
        /\ call.arg.kind = "ok" =>
              /\ ~IsNone(Val(call.out))
              /\ Val(Val(call.out)).body = call.arg.body
              /\ Val(Val(call.out)).extracted_at = "iso"

\* extract_weather_data has returned None for a failure only the last handler
\* catches.
C11_Witness ==
    /\ call.fn = "extract"
    /\ call.n >= 1
    /\ call.arg.kind = "unexpected_error"
    /\ Val(call.out) = None

\* The acceptance condition the claim C12 states, on a raw observation.
C12_Acceptable(raw_data) ==
    /\ ~IsNone(raw_data)
    /\ Val(raw_data).body.hasMain
    /\ ~IsNone(Val(raw_data).body.name)
    /\ ~IsNone(Val(raw_data).body.country)
    /\ ~IsNone(Val(raw_data).body.temp)
    /\ ~IsNone(Val(raw_data).body.humidity)
    /\ ~IsNone(Val(raw_data).body.pressure)
    /\ ~IsNone(Val(raw_data).body.weather_main)
    /\ -100 * 100 <= Val(Val(raw_data).body.temp)
    /\ Val(Val(raw_data).body.temp) <= 60 * 100
    /\ 0 <= Val(Val(raw_data).body.humidity)
    /\ Val(Val(raw_data).body.humidity) <= 100

\* C12: transform_weather_data returns a record if and only if the raw
\* observation has a main section, the six required fields are non-null and
\* temperature and humidity are in range (bounds and 0 included); the record
\* carries the observation's values; a rejected input is rejected again.
C12_TransformAccepts ==
    (call.fn = "transform" /\ call.n >= 1) =>
        /\ ~IsNone(Val(call.out)) <=> C12_Acceptable(call.arg)
        /\ ~IsNone(Val(call.out)) =>
              /\ Val(Val(call.out)).city_name = Val(call.arg).body.name
              /\ Val(Val(call.out)).country_code = Val(call.arg).body.country
              /\ Val(Val(call.out)).temperature = Val(call.arg).body.temp
              /\ Val(Val(call.out)).humidity = Val(call.arg).body.humidity
              /\ Val(Val(call.out)).pressure = Val(call.arg).body.pressure
              /\ Val(Val(call.out)).weather_main = Val(call.arg).body.weather_main
        /\ (call.n >= 2 /\ IsNone(Val(call.prev))) => IsNone(Val(call.out))

\* transform_weather_data has accepted an observation with temperature 0 and
\* humidity 100.
C12_Witness ==
    /\ call.fn = "transform"
    /\ call.n >= 1
    /\ ~IsNone(Val(call.out))
    /\ Val(call.arg).body.temp = Some(0)
    /\ Val(call.arg).body.humidity = Some(100)

\* add_derived_fields has returned.
Enriched == call.fn = "enrich" /\ call.n >= 1

\* C13: add_derived_fields gives every non-null temperature t exactly one
\* class: t < 10 "Frio" (Cold), 10 <= t <= 25 "Ameno" (Mild), 25 < t <= 35
\* "Quente" (Hot), t > 35 "Muito Quente" (VeryHot).
C13_TemperatureCategory ==
    (Enriched /\ ~IsNone(call.arg.temperature)) =>
        LET t == Val(call.arg.temperature)
            c == Val(call.out).temperature_category
        IN  /\ c \in {Some("Frio"), Some("Ameno"), Some("Quente"), Some("Muito Quente")}
            /\ c = Some("Frio") <=> t < 10 * 100
            /\ c = Some("Ameno") <=> (10 * 100 <= t /\ t <= 25 * 100)
            /\ c = Some("Quente") <=> (25 * 100 < t /\ t <= 35 * 100)
            /\ c = Some("Muito Quente") <=> t > 35 * 100

\* A temperature of exactly 25 degrees has been classed "Ameno".
C13_Witness ==
    /\ Enriched
    /\ call.arg.temperature = Some(2500)
    /\ Val(call.out).temperature_category = Some("Ameno")

\* C14: add_derived_fields gives every non-null humidity h exactly one class:
\* h <= 30 "Baixa" (Low), 30 < h < 60 "Moderada" (Moderate), h >= 60 "Alta"
\* (High).
C14_HumidityCategory ==
    (Enriched /\ ~IsNone(call.arg.humidity)) =>
        LET h == Val(call.arg.humidity)
            c == Val(call.out).humidity_category
        IN  /\ c \in {Some("Baixa"), Some("Moderada"), Some("Alta")}
            /\ c = Some("Baixa") <=> h <= 30
            /\ c = Some("Moderada") <=> (30 < h /\ h < 60)
            /\ c = Some("Alta") <=> h >= 60

\* A humidity of exactly 30 percent has been classed "Baixa".
C14_Witness ==
    /\ Enriched
    /\ call.arg.humidity = Some(30)
    /\ Val(call.out).humidity_category = Some("Baixa")

\* C15: when temperature and humidity are both non-null and non-zero,
\* add_derived_fields sets heat_index = temperature + 0.5 * (humidity - 50)
\* (in hundredths: temperature + 50 * (humidity - 50)); when either is 0 or
\* null it sets no heat_index.
C15_HeatIndex ==
    Enriched =>
        LET t == call.arg.temperature
            h == call.arg.humidity
            both == ~IsNone(t) /\ ~IsNone(h) /\ Val(t) # 0 /\ Val(h) # 0
        IN  /\ both =>
                 /\ Val(call.out).has_heat_index
                 /\ Val(call.out).heat_index = Some(Val(t) + 50 * (Val(h) - 50))
            /\ ~both =>
                 /\ ~Val(call.out).has_heat_index
                 /\ Val(call.out).heat_index = None

\* A record with temperature 0 and humidity 60 has been enriched without a
\* heat index.
C15_Witness ==
    /\ Enriched
    /\ call.arg.temperature = Some(0)
    /\ call.arg.humidity = Some(60)
    /\ ~Val(call.out).has_heat_index

\* The rows of a table that are older than days days at hour clock.
C16_Old(rows, days, clock) ==
    {i \in DOMAIN rows : rows[i].created_at < clock - 24 * days}

\* C16: a first cleanup_old_data(d) call returns a count and does not raise;
\* on a usable connection it removes exactly the rows older than d days, keeps
\* the others in place and returns the number removed; on a store error it
\* returns 0 and removes nothing.
C16_PurgeExact ==
    (call.fn = "cleanup" /\ call.n = 1) =>
        LET a == call.arg
            r == Val(call.out)
            old == C16_Old(a.rows, a.days, a.clock)
        IN  /\ r.ret = "count"
            /\ (a.conn = "open" /\ a.table) =>
                  /\ r.rows = SelectSeq(a.rows, LAMBDA x : ~(x.created_at < a.clock - 24 * a.days))
                  /\ r.deleted = Cardinality(old)
            /\ ~(a.conn = "open" /\ a.table) =>
                  /\ r.rows = a.rows
                  /\ r.deleted = 0

\* C17: GET /weather/latest answers 404 only when the store was queried
\* without error and holds no matching row, 503 exactly when the store cannot
\* be reached, and 200 when a matching row was read.
C17_StatusCodes ==
    (call.fn = "latest" /\ call.n >= 1) =>
        LET a == call.arg
            r == Val(call.out)
        IN  /\ r.status = 503 <=> ~a.up
            /\ r.status = 404 =>
                  /\ r.queried
                  /\ ~r.error
                  /\ Matching(a.rows, a.city) = <<>>
            /\ r.status = 200 => Matching(a.rows, a.city) # <<>>

\* C18: in no calendar week does the scheduler invoke the retention sweep more
\* than once (sched.sweeps counts the invocations of cleanup_old_data in the
\* week of the last one).
C18_SweepOncePerWeek == sched.sweeps <= 1

\* C19: the statistics of the report of the n-th run of a process are
\* cumulative: the report of the n-th scheduled invocation shows total_runs = n.
C19_CumulativeStatistics ==
    (pc = "returned" /\ ~IsNone(report)) =>
        Val(report).statistics.total_runs = sched.jobs

\* The step is one call of run_etl_for_city.
CityStep == Len(hist'.processed) = Len(hist.processed) + 1

\* C20: a run_etl_for_city whose extraction fails returns False, adds 1 to
\* failed_extractions and changes no other counter, calls neither the
\* transformer nor the loader, and leaves the table and the connection as
\* they were.
C20_ExtractionFailure ==
    [][(CityStep /\ ~hist'.last.extracted) =>
          /\ ~hist'.last.ret
          /\ stats' = [stats EXCEPT !.failed_extractions = @ + 1]
          /\ hist'.last.transformed = "not_called"
          /\ hist'.last.loader = "not_called"
          /\ store' = store
          /\ connection' = connection]_vars

\* The second city of a run failed at extraction after the first was loaded.
C20_Witness ==
    /\ pc = "cities"
    /\ idx = 2
    /\ ~hist.last.extracted
    /\ stats.failed_extractions = 1
    /\ stats.successful_loads = 1
    /\ Len(store) = 1

\* C21: a run_etl_for_city whose load step fails, by a False of the loader or
\* by an exception of it, returns False and adds exactly 1 to failed_loads.
C21_LoadFailureCounted ==
    [][(CityStep /\ hist'.last.loader \in {"false", "raise"}) =>
          /\ ~hist'.last.ret
          /\ stats'.failed_loads = stats.failed_loads + 1]_vars

\* C22 as stated: run_etl_for_city adds 1 to successful_extractions and to
\* successful_loads exactly when it returns True; when it returns False
\* neither of the two has changed.
C22_SuccessCounters ==
    [][CityStep =>
          IF hist'.last.ret
          THEN /\ stats'.successful_extractions = stats.successful_extractions + 1
               /\ stats'.successful_loads = stats.successful_loads + 1
          ELSE /\ stats'.successful_extractions = stats.successful_extractions
               /\ stats'.successful_loads = stats.successful_loads]_vars

\* C22 amended: successful_loads is incremented by 1 exactly when
\* run_etl_for_city returns True, and is unchanged when it returns False;
\* successful_extractions is incremented by 1 exactly when the extraction
\* succeeds, hence in every call that returns True and also in a call that
\* returns False because the transformation or the load failed.
C22_SuccessCountersByStage ==
    [][CityStep =>
          /\ stats'.successful_loads =
                stats.successful_loads + (IF hist'.last.ret THEN 1 ELSE 0)
          /\ stats'.successful_extractions =
                stats.successful_extractions + (IF hist'.last.extracted THEN 1 ELSE 0)
          /\ hist'.last.ret => hist'.last.extracted]_vars

\* A city was extracted and then failed at the load: one successful
\* extraction, no successful load.
C22_Witness ==
    /\ pc = "cities"
    /\ idx = 1
    /\ hist.last.loader = "false"
    /\ ~hist.last.ret
    /\ stats.successful_extractions = 1
    /\ stats.successful_loads = 0

\* C23: a run_etl_for_city whose transformation fails after a successful
\* extraction returns False, does not call the loader, leaves the table and
\* the connection as they were and changes neither failed_extractions nor
\* failed_loads.
C23_TransformFailure ==
    [][(CityStep /\ hist'.last.extracted /\ hist'.last.transformed = "failed") =>
          /\ ~hist'.last.ret
          /\ hist'.last.loader = "not_called"
          /\ store' = store
          /\ connection' = connection
          /\ stats'.failed_extractions = stats.failed_extractions
          /\ stats'.failed_loads = stats.failed_loads]_vars

\* The second city of a run was rejected by the transformation after the first
\* was loaded; no failure counter has moved.
C23_Witness ==
    /\ pc = "cities"
    /\ idx = 2
    /\ hist.last.extracted
    /\ hist.last.transformed = "failed"
    /\ Len(store) = 1
    /\ stats.failed_extractions = 0
    /\ stats.failed_loads = 0
    /\ stats.successful_extractions = 2

\* The step begins a run of run_full_etl.
RunBegins == stats'.total_runs = stats.total_runs + 1

\* The step is the return of run_full_etl after its city loop.
RunEnds == pc = "cities" /\ pc' # "cities"

\* What a step does to last_run and last_success.
C24_Timestamps ==
    /\ RunBegins =>
          (stats'.last_run = Some(now) /\ stats'.last_success = stats.last_success)
    /\ RunEnds =>
          /\ stats'.last_run = stats.last_run
          /\ stats'.last_success = IF CountTrue(hist.outcomes) > 0 THEN Some(now)
                                    ELSE stats.last_success
    /\ ~(RunBegins \/ RunEnds) =>
          (stats'.last_run = stats.last_run /\ stats'.last_success = stats.last_success)

\* C24: the success flag of a report is true exactly when at least one city
\* of the run succeeded; every run sets last_run when it begins; last_success
\* is set at the end of a run exactly when at least one city succeeded in it,
\* and is changed by no other step.
C24_SuccessFlag ==
    /\ [](RunReturned => (Val(report).success <=> CountTrue(hist.outcomes) > 0))
    /\ [][C24_Timestamps]_vars

\* A second run, a day after a successful one, returned without a successful
\* city: its report says success = false, last_run is the second run's start
\* and last_success still that of the first run.
C24_Witness ==
    /\ RunReturned
    /\ stats.total_runs = 2
    /\ hist.outcomes = <<FALSE>>
    /\ ~Val(report).success
    /\ stats.last_run = Some(now)
    /\ now > 0
    /\ stats.last_success = Some(0)

\* C25: while a run processes its cities, the loader holds a connection on
\* which create_tables has succeeded (in a single pipeline the loader connects
\* at most once, and the table exists exactly when a create_tables of the
\* pipeline has succeeded).
C25_SchemaEnsured ==
    pc = "cities" => (connection # "none" /\ tableExists)

\* The list positions processed so far in the run whose city succeeded, in
\* the order of processing.
Loaded == SelectSeq(hist.processed, LAMBDA i : hist.outcomes[i])

\* The rows the table has gained since the run began.
Written == SubSeq(store, Len(hist.storeAtStart) + 1, Len(store))

\* C26: at every point of a run the cities processed are an initial segment
\* of the list, the table is the table of the run's start followed by one
\* complete row for each successfully loaded city of that segment, in list
\* order, and by nothing else.
C26_PrefixPersisted ==
    pc = "cities" =>
        /\ hist.processed = Positions(idx)
        /\ IsPrefix(hist.storeAtStart, store)
        /\ Len(Written) = Len(Loaded)
        /\ \A k \in DOMAIN Written :
              /\ Written[k].city_name = Some(cities[Loaded[k]])
              /\ Written[k].created_at = now
              /\ C4_Valid(Written[k])

\* After both cities of a list were processed, the table holds a row of the
\* second city only: the first city failed.
C26_Witness ==
    /\ pc = "cities"
    /\ idx = 2
    /\ hist.outcomes = <<FALSE, TRUE>>
    /\ Len(Written) = 1
    /\ Written[1].city_name = Some(cities[2])
    /\ cities[1] # cities[2]

\* C27: health() reports healthy exactly when the connection is open and the
\* last run began less than two hours ago; database_connected is false before
\* the first connect and after the connection was closed; last_run_recent is
\* false before any run.
C27_Health ==
    (call.fn = "health" /\ call.n > 0) =>
        LET h == Val(call.out)
            a == call.arg
        IN  /\ a.conn # "lost" =>
                  (h.healthy <=> (/\ a.conn = "open"
                                  /\ ~IsNone(a.last_run)
                                  /\ a.clock - Val(a.last_run) < 2))
            /\ a.conn \in {"none", "closed"} => ~h.database_connected
            /\ IsNone(a.last_run) => ~h.last_run_recent

\* C28: a record that passes validation, handed to a connected loader whose
\* table exists and whose server accepts the INSERT, is persisted: the call
\* returns true and adds one row.
C28_ValidPersisted ==
    (/\ call.fn = "run_one"
     /\ call.n = 1
     /\ C12_Acceptable(ExtractWeatherData(call.arg.response))
     /\ call.arg.conn = "open" /\ call.arg.table /\ call.arg.accepts) =>
        (Val(call.out).ret = TRUE /\ ~IsNone(Val(call.out).row))

\* No lifetime counter decreases in a step.
CountersGrow ==
    /\ stats'.total_runs >= stats.total_runs
    /\ stats'.successful_extractions >= stats.successful_extractions
    /\ stats'.failed_extractions >= stats.failed_extractions
    /\ stats'.successful_loads >= stats.successful_loads
    /\ stats'.failed_loads >= stats.failed_loads

\* C29: over any sequence of runs of one pipeline instance the counters never
\* decrease, loads counted do not exceed successful extractions, extractions
\* counted do not exceed the run_etl_for_city calls made, and successful_loads
\* is the number of rows the pipeline has inserted (the table starts empty and
\* nothing else writes to it or deletes from it).
C29_CounterBounds ==
    /\ [](/\ stats.successful_loads + stats.failed_loads
                <= stats.successful_extractions
           /\ stats.successful_extractions + stats.failed_extractions
                <= hist.attempts
           /\ stats.successful_loads = Len(store))
    /\ [][CountersGrow]_vars

\* Two runs have been made: the city's load failed in one of them and
\* succeeded in the other.
C29_Witness ==
    /\ stats.total_runs = 2
    /\ hist.attempts > Len(cities)
    /\ stats.successful_extractions = 2
    /\ stats.failed_loads > 0
    /\ stats.successful_loads > 0
    /\ stats.successful_loads = Len(store)

====
